---------------------------- MODULE Spec2Model ----------------------------
(***************************************************************************)
(* A model of src/sankey.py: the three-level sankey diagram built by       *)
(* create_sankey_diagram (primary category -> broad category -> specific   *)
(* topic), its ordering helper get_ordered_list, hex_to_rgba, the loader   *)
(* load_sankey_data and the wrapper create_sankey_plot, which loads the    *)
(* dataset, builds the figure and writes it to the files asked for.        *)
(*                                                                         *)
(* Representation.                                                         *)
(*  - A DataFrame is a sequence of rows; a row is a function from column   *)
(*    names to values: row["fameswap_category"] is a string and            *)
(*    row[c] is 0 or 1 for each of the ten topic columns c.                *)
(*  - A number (a count, a weight 1/k, a position 0.05) is an exact        *)
(*    rational <<numerator, denominator>> in lowest terms.  The code       *)
(*    computes weights and positions in binary floating point; the model   *)
(*    is exact, so it says nothing about rounding.                         *)
(*  - Python's None is the record None.  An argument that is None or a     *)
(*    string (save_html, save_png, save_pdf) is None or Str(s).            *)
(*  - The file system is a function from the paths of the files that       *)
(*    exist to their contents: a DataFrame for the parquet file, the       *)
(*    figure with the format and the options of the call for a file        *)
(*    written by fig.write_html or fig.write_image.                        *)
(*  - A string is a TLA+ string; CodePoints gives its characters, for the  *)
(*    operations that look inside a string (sorted, lstrip, int(.., 16)).  *)
(***************************************************************************)
EXTENDS Integers, Sequences, FiniteSets, TLC

VARIABLES
    pc,               \* "start": create_sankey_plot is about to be called;
                      \* "loaded": it has loaded the dataset and is about to
                      \* call create_sankey_diagram (line 413); "returned":
                      \* that call has returned; "plotted": create_sankey_plot
                      \* has returned; "raised": it has raised; "items" and
                      \* "ordered": before and after a call of get_ordered_list
                      \* on its own
    fs,               \* the file system: path -> content
    df,               \* the DataFrame load_sankey_data returned, given to
                      \* create_sankey_diagram; None before it is loaded
    proportional,     \* the mode flag of the call
    fig,              \* what create_sankey_diagram returned
    locals,           \* the local variables of create_sankey_diagram at its return
    ret,              \* what create_sankey_plot returned: <<df, fig>>
    exception,        \* what create_sankey_plot raised, or None
    stdout,           \* the lines printed since create_sankey_plot was called
    available_items,  \* get_ordered_list called on its own: first argument
    order_list,       \* get_ordered_list called on its own: second argument
    ordered           \* get_ordered_list called on its own: the result

vars == <<pc, fs, df, proportional, fig, locals, ret, exception, stdout, available_items, order_list, ordered>>

----------------------------------------------------------------------------
(* Bounds of the model.                                                    *)

\* Largest number of rows of a dataset.
MaxRows == 2

\* Longest first argument of get_ordered_list called on its own.
MaxItems == 3

\* Longest canonical sequence of get_ordered_list called on its own.
MaxOrder == 2

----------------------------------------------------------------------------
(* Strings.                                                                *)

\* The characters (Unicode code points) of the strings of the model.
CodePoints ==
       "Tech & Science" :> <<84, 101, 99, 104, 32, 38, 32, 83, 99, 105, 101, 110, 99, 101>> @@
       "Beauty & Makeup" :> <<66, 101, 97, 117, 116, 121, 32, 38, 32, 77, 97, 107, 101, 117, 112>> @@
       "Other" :> <<79, 116, 104, 101, 114>> @@
       "Political" :> <<80, 111, 108, 105, 116, 105, 99, 97, 108>> @@
       "Not at-risk" :> <<78, 111, 116, 32, 97, 116, 45, 114, 105, 115, 107>> @@
       "Otherwise" :> <<79, 116, 104, 101, 114, 119, 105, 115, 101>> @@
       "Ideological" :> <<73, 100, 101, 111, 108, 111, 103, 105, 99, 97, 108>> @@
       "crypto" :> <<99, 114, 121, 112, 116, 111>> @@
       "Financial" :> <<70, 105, 110, 97, 110, 99, 105, 97, 108>> @@
       "News" :> <<78, 101, 119, 115>> @@
       "Religious" :> <<82, 101, 108, 105, 103, 105, 111, 117, 115>> @@
       "Medical" :> <<77, 101, 100, 105, 99, 97, 108>> @@
       "Manosphere" :> <<77, 97, 110, 111, 115, 112, 104, 101, 114, 101>> @@
       "Extremist" :> <<69, 120, 116, 114, 101, 109, 105, 115, 116>> @@
       "Cryptocurrency" :> <<67, 114, 121, 112, 116, 111, 99, 117, 114, 114, 101, 110, 99, 121>> @@
       "Money" :> <<77, 111, 110, 101, 121>> @@
       "Gambling" :> <<71, 97, 109, 98, 108, 105, 110, 103>> @@
       "#A1B2B9" :> <<35, 65, 49, 66, 50, 66, 57>> @@
       "#FF6B6B" :> <<35, 70, 70, 54, 66, 54, 66>> @@
       "#4ECDC4" :> <<35, 52, 69, 67, 68, 67, 52>> @@
       "#BDC3C7" :> <<35, 66, 68, 67, 51, 67, 55>> @@
       "#45B7D1" :> <<35, 52, 53, 66, 55, 68, 49>> @@
       "#85C1E9" :> <<35, 56, 53, 67, 49, 69, 57>> @@
       "#5DADE2" :> <<35, 53, 68, 65, 68, 69, 50>> @@
       "#F8C471" :> <<35, 70, 56, 67, 52, 55, 49>> @@
       "#BB8FCE" :> <<35, 66, 66, 56, 70, 67, 69>> @@
       "#F7DC6F" :> <<35, 70, 55, 68, 67, 54, 70>> @@
       "#D7BDE2" :> <<35, 68, 55, 66, 68, 69, 50>> @@
       "#EC7063" :> <<35, 69, 67, 55, 48, 54, 51>> @@
       "#F9E79F" :> <<35, 70, 57, 69, 55, 57, 70>>

\* Python's str.__lt__ on two sequences of code points: the first position
\* where they differ decides; a proper prefix is smaller.
RECURSIVE SeqLess(_, _)
SeqLess(a, b) ==
    IF b = <<>> THEN FALSE
    ELSE IF a = <<>> THEN TRUE
    ELSE IF Head(a) # Head(b) THEN Head(a) < Head(b)
    ELSE SeqLess(Tail(a), Tail(b))

StrLess(s, t) == SeqLess(CodePoints[s], CodePoints[t])

\* The elements of the finite set S in ascending order of the strict total
\* order less, a function from the pairs of S to BOOLEAN.
SortBy(S, less) ==
    LET f[T \in SUBSET S] ==
            IF T = {} THEN <<>>
            ELSE LET m == CHOOSE x \in T : \A y \in T \ {x} : less[<<x, y>>]
                 IN  <<m>> \o f[T \ {m}]
    IN  f[S]

\* Python's sorted() on a set of strings: ascending by code points.
sorted(S) == SortBy(S, [p \in S \X S |-> StrLess(p[1], p[2])])

\* The order of tuples of strings, as pandas sorts the keys of a groupby.
PairLess(a, b) == \/ StrLess(a[1], b[1])
                  \/ a[1] = b[1] /\ StrLess(a[2], b[2])

Range(s) == {s[i] : i \in 1..Len(s)}

----------------------------------------------------------------------------
(* Numbers: exact rationals <<numerator, denominator>>, denominator > 0.   *)

RECURSIVE Gcd(_, _)
Gcd(a, b) == IF b = 0 THEN a ELSE Gcd(b, a % b)

Frac(n, d) == LET g == Gcd(IF n < 0 THEN -n ELSE n, d) IN <<n \div g, d \div g>>

Num(n) == <<n, 1>>

Add(p, q) == Frac(p[1] * q[2] + q[1] * p[2], p[2] * q[2])

Mul(p, q) == Frac(p[1] * q[1], p[2] * q[2])

Less(p, q) == p[1] * q[2] < q[1] * p[2]

Leq(p, q) == p[1] * q[2] <= q[1] * p[2]

\* The sum of f[x] over the elements x of the finite set S.
RECURSIVE SumOver(_, _)
SumOver(S, f) ==
    IF S = {} THEN Num(0)
    ELSE LET x == CHOOSE y \in S : TRUE
         IN  Add(f[x], SumOver(S \ {x}, f))

None == [none |-> TRUE]

----------------------------------------------------------------------------
(* The module-level tables of sankey.py.                                   *)

FAMESWAP_LABELS ==
    "Tech & Science" :> "Technology" @@
    "Educational & QA" :> "Education" @@
    "Quotes & Sayings" :> "Quotes" @@
    "Pets & Animals" :> "Pets" @@
    "Food & Nutrition" :> "Food" @@
    "Outdoor & Travel" :> "Travel" @@
    "Art & Creativity" :> "Creativity" @@
    "Cars & Bikes" :> "Cars" @@
    "Crypto & NFT" :> "Crypto" @@
    "Beauty & Makeup" :> "Beauty" @@
    "Fitness & Sports" :> "Sports" @@
    "Reviews & How-to" :> "How-to" @@
    "Models & Celebrities" :> "Celebrities" @@
    "Humor & Memes" :> "Memes" @@
    "Luxury & Motivation" :> "Motivation" @@
    "Gaming & Entertainment" :> "Gaming" @@
    "Fashion & Style" :> "Fashion" @@
    "Movies TV & Fanpages" :> "Fanpages"

TOPIC_LABELS ==
    "cryptocurrency_content" :> "Cryptocurrency" @@
    "financial_content" :> "Money" @@
    "gambling_content" :> "Gambling" @@
    "hateful_extremist_content" :> "Extremist" @@
    "manosphere_redpill_content" :> "Manosphere" @@
    "medical_health_content" :> "Medical" @@
    "news_content" :> "News" @@
    "political_content" :> "Political" @@
    "religious_content" :> "Religious" @@
    "unclassified" :> "Not at-risk"

FAMESWAP_ORDER ==
    << "Humor & Memes", "Gaming & Entertainment", "Tech & Science", "Educational & QA",
       "Reviews & How-to", "Models & Celebrities", "Luxury & Motivation", "Movies TV & Fanpages",
       "Fitness & Sports", "Fashion & Style", "Quotes & Sayings", "Crypto & NFT",
       "Food & Nutrition", "Art & Creativity", "Cars & Bikes", "Outdoor & Travel",
       "Pets & Animals", "Beauty & Makeup" >>

BROAD_CATEGORY_ORDER == << "Other", "Ideological", "Financial" >>

SPECIFIC_TOPIC_ORDER ==
    << "Not at-risk", "Political", "News", "Religious", "Medical", "Manosphere",
       "Extremist", "Cryptocurrency", "Money", "Gambling" >>

\* dict.get(key, default)
Get(dict, key, default) == IF key \in DOMAIN dict THEN dict[key] ELSE default

----------------------------------------------------------------------------
(* hex_to_rgba                                                             *)

\* str.lstrip('#') on a sequence of code points ('#' is 35).
RECURSIVE lstrip(_)
lstrip(cs) == IF cs # <<>> /\ Head(cs) = 35 THEN lstrip(Tail(cs)) ELSE cs

\* The value of one hexadecimal digit: '0'..'9', 'A'..'F', 'a'..'f'.
HexDigit(c) ==
    IF c \in 48..57 THEN c - 48
    ELSE IF c \in 65..70 THEN c - 55
    ELSE c - 87

\* hex_to_rgba(hex_color, alpha): alpha is the text of the float, e.g. "0.6".
hex_to_rgba(hex_color, alpha) ==
    LET cs == lstrip(CodePoints[hex_color])
        rgb == [j \in 1..3 |-> 16 * HexDigit(cs[2 * j - 1]) + HexDigit(cs[2 * j])]
    IN  "rgba(" \o ToString(rgb[1]) \o ", " \o ToString(rgb[2]) \o ", "
                \o ToString(rgb[3]) \o ", " \o alpha \o ")"

----------------------------------------------------------------------------
(* get_ordered_list, the local function of create_sankey_diagram.          *)

\* The loop "for item in order_list": ordered and remaining after it.
RECURSIVE OrderLoop(_, _, _)
OrderLoop(order, ordered_, remaining) ==
    IF order = <<>> THEN <<ordered_, remaining>>
    ELSE IF Head(order) \in remaining
         THEN OrderLoop(Tail(order), Append(ordered_, Head(order)), remaining \ {Head(order)})
         ELSE OrderLoop(Tail(order), ordered_, remaining)

\* get_ordered_list with line 201 changed to ordered.extend(remaining), the
\* remaining items kept in the order they were given in.
get_ordered_list_unsorted(items, order) ==
    LET after == OrderLoop(order, <<>>, Range(items))
    IN  after[1] \o SelectSeq(items, LAMBDA x : x \in after[2])

\* get_ordered_list(available_items, order_list): items is a sequence (the
\* array returned by unique()), of which the code takes the set.
get_ordered_list(items, order) ==
    LET after == OrderLoop(order, <<>>, Range(items))
    IN  after[1] \o sorted(after[2])


----------------------------------------------------------------------------
(* create_sankey_diagram: the tables local to the function.                *)

topic_columns ==
    << "cryptocurrency_content", "financial_content", "gambling_content",
       "hateful_extremist_content",
       "manosphere_redpill_content", "medical_health_content", "news_content",
       "political_content",
       "religious_content",
       "unclassified" >>

broad_categories ==
    "Ideological" :> << "Political", "Religious", "News", "Medical", "Manosphere", "Extremist" >> @@
    "Financial" :> << "Cryptocurrency", "Money", "Gambling" >> @@
    "Other" :> << "Not at-risk" >>

broad_colors ==
    "Ideological" :> "#FF6B6B" @@
    "Financial" :> "#4ECDC4" @@
    "Other" :> "#BDC3C7"

topic_colors ==
    "Cryptocurrency" :> "#45B7D1" @@
    "Money" :> "#85C1E9" @@
    "Gambling" :> "#5DADE2" @@
    "Extremist" :> "#F8C471" @@
    "Manosphere" :> "#BB8FCE" @@
    "Medical" :> "#F7DC6F" @@
    "News" :> "#D7BDE2" @@
    "Political" :> "#EC7063" @@
    "Religious" :> "#F9E79F" @@
    "Not at-risk" :> "#BDC3C7"

\* The loop that inverts broad_categories: each topic's broad category.
topic_to_broad ==
    [t \in UNION {Range(broad_categories[b]) : b \in DOMAIN broad_categories} |->
        CHOOSE b \in DOMAIN broad_categories : t \in Range(broad_categories[b])]

invisible_nodes == {"Other", "Not at-risk"}

specific_y_positions ==
    "Political" :> Frac(1, 10) @@
    "News" :> Frac(2, 10) @@
    "Religious" :> Frac(3, 10) @@
    "Medical" :> Frac(4, 10) @@
    "Manosphere" :> Frac(45, 100) @@
    "Extremist" :> Frac(5, 10) @@
    "Cryptocurrency" :> Frac(6, 10) @@
    "Money" :> Frac(68, 100) @@
    "Gambling" :> Frac(75, 100) @@
    "Not at-risk" :> Frac(1, 10000)

----------------------------------------------------------------------------
(* create_sankey_diagram: the flows.                                       *)

\* A sequence given as a function on 1..n, as the list of its elements (the
\* same value, its elements computed once).
List(f) == f \o <<>>

\* Series.unique(): the distinct values in order of first appearance.
RECURSIVE Unique(_)
Unique(s) ==
    IF s = <<>> THEN <<>>
    ELSE LET init == Unique(SubSeq(s, 1, Len(s) - 1))
             last == s[Len(s)]
         IN  IF last \in Range(init) THEN init ELSE Append(init, last)

\* The column col of the frame (a sequence of rows) f.
Column(f, col) == List([i \in 1..Len(f) |-> f[i][col]])

\* The sum of a sequence of rationals.
RECURSIVE SumSeq(_)
SumSeq(s) == IF s = <<>> THEN Num(0) ELSE Add(Head(s), SumSeq(Tail(s)))

\* The concatenation of a sequence of sequences (pd.concat).
RECURSIVE Concat(_)
Concat(ss) == IF ss = <<>> THEN <<>> ELSE Head(ss) \o Concat(Tail(ss))

\* df[df['fameswap_category'] != 'Beauty & Makeup']
df_filtered(d) == SelectSeq(d, LAMBDA r : r["fameswap_category"] # "Beauty & Makeup")

\* df_normalized[topic_columns].sum(axis=1), for one row: an integer.
topic_sums(row) ==
    LET f[i \in 0..Len(topic_columns)] ==
            IF i = 0 THEN 0 ELSE f[i - 1] + row[topic_columns[i]]
    IN  f[Len(topic_columns)]

\* Line 148 without its division: an active indicator keeps the value 1.
normalized_unweighted(row, topic_col) ==
    IF row[topic_col] = 1 /\ topic_sums(row) > 0 THEN Num(1) ELSE Num(0)

\* The value the normalisation loop leaves in row[topic_col]: 1/topic_sums
\* under the mask, 0 outside it.
normalized(row, topic_col) ==
    IF row[topic_col] = 1 /\ topic_sums(row) > 0
    THEN Frac(1, topic_sums(row))
    ELSE Num(0)

\* The filtered frame f after the normalisation loop.
df_normalized(f) ==
    List([i \in 1..Len(f) |->
        [c \in DOMAIN f[i] |->
            IF c \in Range(topic_columns) THEN normalized(f[i], c) ELSE f[i][c]]])

\* Lines 152-158 with the groupby over all the rows of the normalised frame
\* (line 153 without its filter), when the column has a channel.
proportional_flows_all_groups(dn, topic_col) ==
    LET topic_channels ==
            IF SelectSeq(dn, LAMBDA r : Less(Num(0), r[topic_col])) = <<>> THEN <<>> ELSE dn
        cats == sorted(Range(Column(topic_channels, "fameswap_category")))
    IN  List([i \in 1..Len(cats) |->
            [fameswap_category |-> cats[i],
             count |-> SumSeq(Column(SelectSeq(topic_channels,
                                 LAMBDA r : r["fameswap_category"] = cats[i]), topic_col)),
             specific_topic |-> TOPIC_LABELS[topic_col]]])

\* The frame flows of one topic column in proportional mode, from the
\* normalised frame: one row per primary category (groupby sorts them), count
\* the sum of the weights.
proportional_flows(dn, topic_col) ==
    LET topic_channels == SelectSeq(dn, LAMBDA r : Less(Num(0), r[topic_col]))
        cats == sorted(Range(Column(topic_channels, "fameswap_category")))
    IN  List([i \in 1..Len(cats) |->
            [fameswap_category |-> cats[i],
             count |-> SumSeq(Column(SelectSeq(topic_channels,
                                 LAMBDA r : r["fameswap_category"] = cats[i]), topic_col)),
             specific_topic |-> TOPIC_LABELS[topic_col]]])

\* Lines 161-166 changed to count a row once: under the first of its
\* active topic columns only.
binary_flows_once(f, topic_col) ==
    LET first(r) == CHOOSE i \in 1..Len(topic_columns) :
                        /\ r[topic_columns[i]] = 1
                        /\ \A j \in 1..(i - 1) : r[topic_columns[j]] # 1
        topic_channels == SelectSeq(f, LAMBDA r : /\ r[topic_col] = 1
                                                  /\ topic_columns[first(r)] = topic_col)
        cats == sorted(Range(Column(topic_channels, "fameswap_category")))
    IN  List([i \in 1..Len(cats) |->
            [fameswap_category |-> cats[i],
             count |-> Num(Len(SelectSeq(topic_channels,
                                 LAMBDA r : r["fameswap_category"] = cats[i]))),
             specific_topic |-> TOPIC_LABELS[topic_col]]])

\* The frame flows of one topic column in binary mode, from the filtered
\* frame: count is the group's size.
binary_flows(f, topic_col) ==
    LET topic_channels == SelectSeq(f, LAMBDA r : r[topic_col] = 1)
        cats == sorted(Range(Column(topic_channels, "fameswap_category")))
    IN  List([i \in 1..Len(cats) |->
            [fameswap_category |-> cats[i],
             count |-> Num(Len(SelectSeq(topic_channels,
                                 LAMBDA r : r["fameswap_category"] = cats[i]))),
             specific_topic |-> TOPIC_LABELS[topic_col]]])

\* The list topic_flows built from the filtered frame f: the frames of the
\* topic columns that have channels (a frame is empty exactly when
\* len(topic_channels) = 0).
topic_flows(f, prop) ==
    LET dn == df_normalized(f)
        frames == List([i \in 1..Len(topic_columns) |->
                      IF prop THEN proportional_flows(dn, topic_columns[i])
                              ELSE binary_flows(f, topic_columns[i])])
    IN  SelectSeq(frames, LAMBDA fr : fr # <<>>)

\* all_flows = pd.concat(topic_flows), with its column broad_category.
all_flows(tf) ==
    LET a == Concat(tf)
    IN  List([i \in 1..Len(a) |->
            [fameswap_category |-> a[i].fameswap_category,
             count |-> a[i].count,
             specific_topic |-> a[i].specific_topic,
             broad_category |-> topic_to_broad[a[i].specific_topic]]])

\* frame.groupby([k1, k2])['count'].sum().reset_index(): one row per key,
\* the keys in ascending order.
GroupSum(frame, k1, k2) ==
    LET pairs == {<<frame[i][k1], frame[i][k2]>> : i \in 1..Len(frame)}
        keys == SortBy(pairs, [p \in pairs \X pairs |-> PairLess(p[1], p[2])])
    IN  List([j \in 1..Len(keys) |->
            (k1 :> keys[j][1]) @@ (k2 :> keys[j][2]) @@
            ("count" :> SumSeq(Column(SelectSeq(frame,
                            LAMBDA r : r[k1] = keys[j][1] /\ r[k2] = keys[j][2]), "count")))])

broad_flows(af) == GroupSum(af, "fameswap_category", "broad_category")

\* groupby(['broad_category', 'specific_topic'])['count'].first(): the count
\* of the first row of each group, in place of the sum of line 186.
specific_flows_first(af) ==
    LET pairs == {<<af[i]["broad_category"], af[i]["specific_topic"]>> : i \in 1..Len(af)}
        keys == SortBy(pairs, [p \in pairs \X pairs |-> PairLess(p[1], p[2])])
    IN  List([j \in 1..Len(keys) |->
            ("broad_category" :> keys[j][1]) @@ ("specific_topic" :> keys[j][2]) @@
            ("count" :> Head(Column(SelectSeq(af,
                            LAMBDA r : r["broad_category"] = keys[j][1]
                                       /\ r["specific_topic"] = keys[j][2]), "count")))])

specific_flows(af) == GroupSum(af, "broad_category", "specific_topic")

----------------------------------------------------------------------------
(* create_sankey_diagram: ordering, nodes, node indices and links.         *)

\* Lines 205-206 without line 209: the excluded category stays in the list.
fameswap_categories_unfiltered(d) ==
    get_ordered_list(Unique(Column(d, "fameswap_category")), FAMESWAP_ORDER)

\* The primary categories of the whole dataset, ordered, without the
\* excluded one.
fameswap_categories(d) ==
    SelectSeq(get_ordered_list(Unique(Column(d, "fameswap_category")), FAMESWAP_ORDER),
              LAMBDA cat : cat # "Beauty & Makeup")

broad_category_list(bf) ==
    get_ordered_list(Unique(Column(bf, "broad_category")), BROAD_CATEGORY_ORDER)

specific_topics(sf) ==
    get_ordered_list(Unique(Column(sf, "specific_topic")), SPECIFIC_TOPIC_ORDER)

\* The left column: label, colour and position of each primary category.
fameswap_nodes(cats) ==
    LET fameswap_spacing == Frac(9, 10 * Len(cats))
    IN  List([k \in 1..Len(cats) |->
            [label |-> Get(FAMESWAP_LABELS, cats[k], cats[k]),
             color |-> "#A1B2B9",
             x |-> Frac(1, 100),
             y |-> Add(Frac(5, 100), Mul(Num(k - 1), fameswap_spacing))]])

\* The middle column, of the ordered broad categories.
broad_nodes(cats) ==
    List([k \in 1..Len(cats) |->
        IF cats[k] \in invisible_nodes
        THEN [label |-> "", color |-> "rgba(0,0,0,0)",
              x |-> Frac(3, 10), y |-> Frac(1, 1000)]
        ELSE [label |-> "", color |-> Get(broad_colors, cats[k], "#BDC3C7"),
              x |-> Frac(5, 10),
              y |-> IF cats[k] \in {"Ideological"} THEN Frac(3, 10) ELSE Frac(7, 10)]])

\* The right column, of the ordered specific topics.
specific_nodes(cats) ==
    List([k \in 1..Len(cats) |->
        IF cats[k] \in invisible_nodes
        THEN [label |-> "", color |-> "rgba(0,0,0,0)",
              x |-> Num(2), y |-> Frac(1, 10000)]
        ELSE [label |-> cats[k], color |-> Get(topic_colors, cats[k], "#BDC3C7"),
              x |-> Frac(8, 10),
              y |-> Get(specific_y_positions, cats[k], Frac(5, 10))]])

\* The dict node_mapping: the three loops assign the indices 0, 1, ... in
\* turn, a later assignment to the same key replacing an earlier one.
node_mapping(fc, bl, st) ==
    LET all == fc \o bl \o st
    IN  [cat \in Range(all) |->
            (CHOOSE i \in 1..Len(all) :
                all[i] = cat /\ \A j \in (i + 1)..Len(all) : all[j] # cat) - 1]

\* The code of a value in pd.Categorical(.., categories): its position, or
\* past the end (NaN, sorted last) when it is no category.
Code(categories, v) ==
    IF v \in Range(categories)
    THEN CHOOSE i \in 1..Len(categories) :
            categories[i] = v /\ \A j \in 1..(i - 1) : categories[j] # v
    ELSE Len(categories) + 1

\* frame.sort_values(['source_cat', 'target_cat']), the two columns being
\* the categoricals of k1 over cats1 and of k2 over cats2.
SortFlows(frame, k1, cats1, k2, cats2) ==
    LET key == List([i \in 1..Len(frame) |->
                   <<Code(cats1, frame[i][k1]), Code(cats2, frame[i][k2]), i>>])
        before == [p \in (1..Len(frame)) \X (1..Len(frame)) |->
                      LET i == p[1]
                          j == p[2]
                      IN  \/ key[i][1] < key[j][1]
                          \/ key[i][1] = key[j][1] /\ key[i][2] < key[j][2]
                          \/ key[i][1] = key[j][1] /\ key[i][2] = key[j][2] /\ i < j]
        perm == SortBy(1..Len(frame), before)
    IN  List([n \in 1..Len(frame) |-> frame[perm[n]]])

broad_flows_sorted(bf, fc, bl) ==
    SortFlows(bf, "fameswap_category", fc, "broad_category", bl)

specific_flows_sorted(sf, bl, st) ==
    SortFlows(sf, "broad_category", bl, "specific_topic", st)

\* The links of the first loop, over the rows of broad_flows_sorted:
\* primary category -> broad category.
broad_links(rows, nm) ==
    List([n \in 1..Len(rows) |->
        [source |-> nm[rows[n].fameswap_category],
         target |-> nm[rows[n].broad_category],
         value |-> rows[n].count,
         color |-> IF rows[n].broad_category \in invisible_nodes
                   THEN "rgba(0,0,0,0)"
                   ELSE hex_to_rgba(Get(broad_colors, rows[n].broad_category, "#BDC3C7"),
                                    "0.6")]])

\* The links of the second loop, over the rows of specific_flows_sorted:
\* broad category -> specific topic.
specific_links(rows, nm) ==
    List([n \in 1..Len(rows) |->
        [source |-> nm[rows[n].broad_category],
         target |-> nm[rows[n].specific_topic],
         value |-> rows[n].count,
         color |-> IF \/ rows[n].specific_topic \in invisible_nodes
                      \/ rows[n].broad_category \in invisible_nodes
                   THEN "rgba(0,0,0,0)"
                   ELSE hex_to_rgba(Get(topic_colors, rows[n].specific_topic, "#BDC3C7"),
                                    "0.6")]])

\* The record that stands for one call of create_sankey_diagram:
\*  - returns: None, or the figure: the data of its Sankey trace (node label,
\*    color, x, y; link source, target, value, color).  The fixed styling of
\*    the trace and of the layout is left out.
\*  - prints: the lines printed.
\*  - locals: the local variables at the return: the two flow frames, the
\*    three ordered lists and the index.
Call(returns, prints, bf, sf, fc, bl, st, nm) ==
    [returns |-> returns,
     prints |-> prints,
     locals |-> [broad_flows |-> bf, specific_flows |-> sf,
                 fameswap_categories |-> fc, broad_category_list |-> bl,
                 specific_topics |-> st, node_mapping |-> nm]]

\* The rest of create_sankey_diagram is written as a chain of steps, each
\* taking the local variables computed so far and binding the next ones to
\* their values: The({e(x) : x \in {v}}) is e with x bound to the value v.
The(S) == CHOOSE r \in S : TRUE

\* Lines 217-380: the nodes, the links and the figure, from the flow frames,
\* the ordered lists and the index.
figure(bf, sf, fc, bl, st, nm) ==
    IF Len(fc) = 0 THEN [raised |-> "ZeroDivisionError"]
    ELSE The({[node |-> [label |-> Column(nodes, "label"),
                         color |-> Column(nodes, "color"),
                         x |-> Column(nodes, "x"),
                         y |-> Column(nodes, "y")],
               link |-> [source |-> Column(links, "source"),
                         target |-> Column(links, "target"),
                         value |-> Column(links, "value"),
                         color |-> Column(links, "color")]] :
              nodes \in {fameswap_nodes(fc) \o broad_nodes(bl) \o specific_nodes(st)},
              links \in {The({broad_links(rows, nm) : rows \in {broad_flows_sorted(bf, fc, bl)}})
                         \o The({specific_links(rows, nm) :
                                    rows \in {specific_flows_sorted(sf, bl, st)}})}})

\* Lines 281-292, then the rest.
with_ordered_lists(bf, sf, fc, bl, st) ==
    The({Call(figure(bf, sf, fc, bl, st, nm), <<>>, bf, sf, fc, bl, st, nm) :
            nm \in {node_mapping(fc, bl, st)}})

\* Lines 204-215, then the rest.
with_flows(d, bf, sf) ==
    The({with_ordered_lists(bf, sf, fc, bl, st) :
            fc \in {fameswap_categories(d)},
            bl \in {broad_category_list(bf)},
            st \in {specific_topics(sf)}})

\* Lines 172-186, then the rest.
with_all_flows(d, af) ==
    The({with_flows(d, bf, sf) : bf \in {broad_flows(af)}, sf \in {specific_flows(af)}})

\* The function without lines 168-170: it goes on with an empty topic_flows
\* (taking the concatenation of no frames to be the empty frame).
with_topic_flows_unchecked(d, tf) ==
    The({with_all_flows(d, af) : af \in {all_flows(tf)}})

\* Lines 168-170, the early return when topic_flows is empty, then the rest.
with_topic_flows(d, tf) ==
    IF tf = <<>>
    THEN Call(None, << "No flows found!" >>, <<>>, <<>>, <<>>, <<>>, <<>>, <<>>)
    ELSE The({with_all_flows(d, af) : af \in {all_flows(tf)}})

\* Lines 134-166, then the rest.
with_df_filtered(d, f, prop) ==
    The({with_topic_flows(d, tf) : tf \in {topic_flows(f, prop)}})

\* create_sankey_diagram(df, proportional).
create_sankey_diagram(d, prop) ==
    The({with_df_filtered(d, f, prop) : f \in {df_filtered(d)}})

----------------------------------------------------------------------------
(* The datasets of the model.                                              *)

\* The primary categories of the model's rows: one of FAMESWAP_ORDER (which
\* the canonical order puts first and the order of code points last), the
\* excluded category, and two that are not in FAMESWAP_ORDER and share their
\* label with a broad category and with a specific topic.
Categories == << "Political", "Tech & Science", "Other", "Beauty & Makeup" >>

\* The topic columns that may be 1 in the model's rows, the others being 0:
\* two topics of Ideological, one of Financial, and the no-signal column.
ActiveColumns == << "political_content", "news_content", "financial_content", "unclassified" >>

\* The row of primary category cat whose active indicators are active.
Row(cat, active) ==
    ("fameswap_category" :> cat) @@
    [c \in Range(topic_columns) |-> IF c \in active THEN 1 ELSE 0]

\* The rows of the model, numbered: every category with every set of active
\* columns.
NumActiveSets == 2 ^ Len(ActiveColumns)

NumRows == Len(Categories) * NumActiveSets

RowAt(k) ==
    Row(Categories[((k - 1) \div NumActiveSets) + 1],
        {ActiveColumns[b] : b \in {c \in 1..Len(ActiveColumns) :
                                      (((k - 1) % NumActiveSets) \div (2 ^ (c - 1))) % 2 = 1}})

\* The datasets of the model: up to MaxRows rows, in the order of their
\* numbers.  What the code computes from a dataset does not depend on the
\* order of its rows (groupby sorts its keys, the sums commute, and the order
\* of unique() is lost in set()), so one order stands for all.
Datasets ==
    {[i \in DOMAIN s |-> RowAt(s[i])] :
        s \in {t \in UNION {[1..n -> 1..NumRows] : n \in 0..MaxRows} :
                  \A i \in DOMAIN t : \A j \in DOMAIN t : i < j => t[i] <= t[j]}}

----------------------------------------------------------------------------
(* The state machine.                                                      *)

NoLocals == Call(None, <<>>, <<>>, <<>>, <<>>, <<>>, <<>>, <<>>).locals

\* A string given for an argument whose default is None.
Str(s) == [str |-> s]

\* The truth value of an argument that is None or a string ("if save_html:").
Truthy(v) == v # None /\ v.str # ""

\* The default of the argument parquet_file, which the only call of
\* create_sankey_plot in the file (line 441) also passes.
parquet_file == "./data/sankey_data.parquet"

\* The file system without any file.
NoFiles == [path \in {} |-> None]

\* load_sankey_data(path) on the file system files: it raises
\* FileNotFoundError when the file does not exist; else it prints two lines
\* and returns the frame read from the file.
load_sankey_data(files, path) ==
    IF path \notin DOMAIN files
    THEN [raises |-> [type |-> "FileNotFoundError", by |-> "load_sankey_data"],
          returns |-> None,
          prints |-> <<>>]
    ELSE [raises |-> None,
          returns |-> files[path],
          prints |-> << "Loading data from " \o path \o "...",
                        "Loaded " \o ToString(Len(files[path])) \o " records" >>]

\* The three optional writes of lines 420-430, in their order: the path
\* argument, the method called, the line printed after it and the file it
\* leaves: the figure of the state, in the format and with the options of
\* the call.
Saves(save_html, save_png, save_pdf) ==
    << [path |-> save_html, format |-> "html", by |-> "write_html",
        says |-> "Saved HTML to ",
        file |-> [format |-> "html"]],
       [path |-> save_png, format |-> "png", by |-> "write_image",
        says |-> "Saved PNG to ",
        file |-> [format |-> "png",
                  width |-> 600, height |-> 1000, scale |-> 2]],
       [path |-> save_pdf, format |-> "pdf", by |-> "write_image",
        says |-> "Saved PDF to ",
        file |-> [format |-> "pdf",
                  width |-> 600, height |-> 1000]] >>

\* Lines 420-430 on the file system files: each write whose path is given
\* is made and its line printed, up to the first write that raises (a
\* directory that does not exist, no image engine): broken is the set of the
\* formats whose write raises (one format is enough for every outcome, the
\* first write that raises being the last one made).  The result: the file system, the lines
\* printed and what was raised.
RECURSIVE save_files(_, _, _)
save_files(steps, files, broken) ==
    IF steps = <<>>
    THEN [files |-> files, prints |-> <<>>, raises |-> None]
    ELSE LET s == Head(steps)
         IN  IF ~Truthy(s.path)
             THEN save_files(Tail(steps), files, broken)
             ELSE IF s.format \in broken
             THEN [files |-> files, prints |-> <<>>,
                   raises |-> [type |-> "Exception", by |-> s.by]]
             ELSE LET rest == save_files(Tail(steps),
                                         (s.path.str :> s.file) @@ files, broken)
                  IN  [rest EXCEPT !.prints = << s.says \o s.path.str >> \o @]

\* Before create_sankey_plot is called: the parquet file exists, holding a
\* dataset, or it does not.
Init ==
    /\ pc = "start"
    /\ fs \in {NoFiles} \cup {(parquet_file :> d) @@ NoFiles : d \in Datasets}
    /\ df = None
    /\ proportional = FALSE
    /\ fig = None
    /\ locals = NoLocals
    /\ ret = None
    /\ exception = None
    /\ stdout = <<>>
    /\ available_items = <<>>
    /\ order_list = <<>>
    /\ ordered = <<>>

\* create_sankey_plot up to line 412: it calls load_sankey_data, which
\* raises or prints and returns the dataset, and prints that it is about to
\* create the diagram.
LoadSankeyData ==
    /\ pc = "start"
    /\ LET load == load_sankey_data(fs, parquet_file)
       IN  IF load.raises # None
           THEN /\ pc' = "raised"
                /\ exception' = load.raises
                /\ UNCHANGED <<df, stdout>>
           ELSE /\ pc' = "loaded"
                /\ df' = load.returns
                /\ stdout' = stdout \o load.prints \o << "Creating sankey diagram..." >>
                /\ UNCHANGED exception
    /\ UNCHANGED <<fs, proportional, fig, locals, ret, available_items, order_list, ordered>>

\* Line 413: the call create_sankey_diagram(df, proportional=p) on the loaded
\* dataset.
CallCreateSankeyDiagram(p) ==
    /\ pc = "loaded"
    /\ \E call \in {create_sankey_diagram(df, p)} :
          /\ pc' = "returned"
          /\ proportional' = p
          /\ fig' = call.returns
          /\ locals' = call.locals
          /\ stdout' = stdout \o call.prints
          /\ UNCHANGED <<fs, df, ret, exception, available_items, order_list, ordered>>

\* create_sankey_plot from line 415 on, after create_sankey_diagram has
\* returned fig: without a figure it prints the failure and returns
\* (df, None); else it writes the files asked for, printing a line for each,
\* and returns (df, fig), unless a write raises.
create_sankey_plot(save_html, save_png, save_pdf, broken) ==
    /\ pc = "returned"
    /\ IF fig = None
       THEN /\ pc' = "plotted"
            /\ ret' = <<df, None>>
            /\ stdout' = Append(stdout, "Failed to create sankey diagram")
            /\ UNCHANGED <<fs, exception>>
       ELSE LET saved == save_files(Saves(save_html, save_png, save_pdf), fs, broken)
            IN  /\ fs' = saved.files
                /\ stdout' = stdout \o saved.prints
                /\ IF saved.raises # None
                   THEN /\ pc' = "raised"
                        /\ exception' = saved.raises
                        /\ UNCHANGED ret
                   ELSE /\ pc' = "plotted"
                        /\ ret' = <<df, fig>>
                        /\ UNCHANGED exception
    /\ UNCHANGED <<df, proportional, fig, locals, available_items, order_list, ordered>>

\* The values given for <<save_html, save_png, save_pdf>>: the defaults; the
\* call of line 441; two writes, with an empty string for the third path;
\* the third write alone.
SaveArguments ==
    { <<None, None, None>>,
      <<Str("./output/sankey.html"), None, None>>,
      <<Str("./output/sankey.html"), Str("./output/sankey.png"), Str("")>>,
      <<None, None, Str("./output/sankey.pdf")>> }

Next ==
    \/ LoadSankeyData
    \/ \E p \in BOOLEAN : CallCreateSankeyDiagram(p)
    \/ \E save \in SaveArguments : \E broken \in {{}, {"html"}, {"png"}, {"pdf"}} :
          create_sankey_plot(save[1], save[2], save[3], broken)

Spec == Init /\ [][Next]_vars

----------------------------------------------------------------------------
(* get_ordered_list on its own: a second state machine, over the variables *)
(* available_items, order_list and ordered.                                *)

\* The labels of the lists: one a prefix of another, and one in lower case
\* (in code points, lower case comes after upper case).
Labels == {"Other", "Otherwise", "Ideological", "crypto"}

\* The sequences over S of length at most n, without repetition.
Lists(S, n) ==
    {t \in UNION {[1..k -> S] : k \in 0..n} :
        \A i \in DOMAIN t : \A j \in DOMAIN t : i # j => t[i] # t[j]}

\* available_items is an array returned by unique(); order_list is one of
\* the canonical lists, which have no repetition.
InitOrder ==
    /\ pc = "items"
    /\ available_items \in Lists(Labels, MaxItems)
    /\ order_list \in Lists(Labels, MaxOrder)
    /\ ordered = <<>>
    /\ fs = NoFiles
    /\ df = None
    /\ proportional = FALSE
    /\ fig = None
    /\ locals = NoLocals
    /\ ret = None
    /\ exception = None
    /\ stdout = <<>>

\* A call get_ordered_list(available_items, order_list).
CallGetOrderedList ==
    /\ pc = "items"
    /\ pc' = "ordered"
    /\ ordered' = get_ordered_list(available_items, order_list)
    /\ UNCHANGED <<fs, df, proportional, fig, locals, ret, exception, stdout, available_items, order_list>>

NextOrder == CallGetOrderedList

SpecOrder == InitOrder /\ [][NextOrder]_vars

----------------------------------------------------------------------------
(* The vocabulary of the properties.  It is defined from the dataset and   *)
(* from the state, apart from the operators of the model above.            *)

\* create_sankey_diagram has been called and has just returned (line 413).
\* What create_sankey_plot does after that changes neither df, proportional,
\* fig nor the local variables, so what holds of them here holds of them
\* from here on.
Called == pc = "returned"

\* create_sankey_plot is past the call: at line 415, or it has returned.
PastCall == pc \in {"returned", "plotted"}

\* It returned a figure.
Produced == Called /\ fig # None

Excluded == "Beauty & Makeup"

\* The rows of d that are not of the excluded primary category.
WithoutExcluded(d) == SelectSeq(d, LAMBDA r : r["fameswap_category"] # Excluded)

\* The non-excluded primary categories of d.
PrimaryCategories(d) == Range(Column(d, "fameswap_category")) \ {Excluded}

\* The rows of d of primary category c.
RowsOf(d, c) == SelectSeq(d, LAMBDA r : r["fameswap_category"] = c)

\* The columns that are 1 in row r, among the ten columns the code reads
\* (the nine topics and 'unclassified'), and among the nine topics.
ActiveColumnsOf(r) == {col \in Range(topic_columns) : r[col] = 1}

ActiveTopicsOf(r) == ActiveColumnsOf(r) \ {"unclassified"}

\* The number of pairs (row of d, column that is 1 in the row).
ActivePairs(d) ==
    LET f[i \in 0..Len(d)] ==
            IF i = 0 THEN 0 ELSE f[i - 1] + Cardinality(ActiveColumnsOf(d[i]))
    IN  f[Len(d)]

\* The number of rows of d with at least one active column, and with no
\* active topic.
RowsWithActiveColumn(d) == Len(SelectSeq(d, LAMBDA r : ActiveColumnsOf(r) # {}))

RowsWithoutActiveTopic(d) == Len(SelectSeq(d, LAMBDA r : ActiveTopicsOf(r) = {}))

\* The total weight of the level-1 -> level-2 flows of primary category c,
\* and the weight of its flow into the broad category b.
WeightFrom(frame, c) ==
    SumSeq(Column(SelectSeq(frame, LAMBDA r : r["fameswap_category"] = c), "count"))

WeightInto(frame, c, b) ==
    SumSeq(Column(SelectSeq(frame, LAMBDA r : /\ r["fameswap_category"] = c
                                              /\ r["broad_category"] = b), "count"))

\* The level-1 -> level-2 flows of dataset d in the given mode, computed
\* afresh: the empty frame when there is no flow.
BroadFlowsOf(d, prop) ==
    LET tf == topic_flows(df_filtered(d), prop)
    IN  IF tf = <<>> THEN <<>> ELSE broad_flows(all_flows(tf))

\* The numbers of nodes of the three levels, and the level of the node of
\* (1-based) position i in the node lists.
n1 == Len(locals.fameswap_categories)

n2 == Len(locals.broad_category_list)

n3 == Len(locals.specific_topics)

Level(i) == IF i <= n1 THEN 1 ELSE IF i <= n1 + n2 THEN 2 ELSE 3

\* The node of position i stands for an invisible category: 'Other' at
\* level 2, 'Not at-risk' at level 3.
Invisible(i) ==
    \/ Level(i) = 2 /\ locals.broad_category_list[i - n1] = "Other"
    \/ Level(i) = 3 /\ locals.specific_topics[i - n1 - n2] = "Not at-risk"

Transparent == "rgba(0,0,0,0)"

----------------------------------------------------------------------------
(* C1: binary-mode conservation.                                           *)

\* C1, as stated: after create_sankey_diagram(df, proportional=False), for
\* every non-excluded primary category c, the weights of the level-1 ->
\* level-2 flows of c sum to the number of rows of c that have at least one
\* active indicator.  (The reading most favourable to the statement: the
\* no-signal column counts as an indicator, so that a row of zeros is not
\* expected in the sum.)
C1_BinarySumIsRowCount ==
    (Called /\ ~proportional) =>
        \A c \in PrimaryCategories(df) :
            WeightFrom(locals.broad_flows, c)
                = Num(RowsWithActiveColumn(RowsOf(df, c)))

\* C1, amended: in binary mode every active indicator of a row counts one:
\* for every non-excluded primary category c, the weights of the level-1 ->
\* level-2 flows of c sum to the number of pairs (row of c, column that is 1
\* in the row), a row with m active columns counting m times; and the
\* level-1 -> level-2 edges of the figure carry, in all, the weight of all
\* these pairs.
C1_BinarySumIsIndicatorCount ==
    (Called /\ ~proportional) =>
        /\ \A c \in PrimaryCategories(df) :
              WeightFrom(locals.broad_flows, c) = Num(ActivePairs(RowsOf(df, c)))
        /\ Produced =>
              SumSeq(SubSeq(fig.link.value, 1, Len(locals.broad_flows)))
                  = Num(ActivePairs(WithoutExcluded(df)))

\* A binary-mode figure of a dataset with a row of two or more active
\* columns.
C1_Witness ==
    /\ Produced
    /\ ~proportional
    /\ \E i \in 1..Len(df) :
          /\ df[i]["fameswap_category"] # Excluded
          /\ Cardinality(ActiveColumnsOf(df[i])) >= 2

----------------------------------------------------------------------------
(* C2: a row with no active topic indicator, in proportional mode.         *)

\* C2, as stated: in proportional mode every non-excluded row with no
\* active topic indicator contributes 1 to the flow of its primary category
\* into 'Other' (through 'Not at-risk'), none being dropped: for every
\* primary category c, the weight of the flow c -> 'Other' is at least the
\* number of rows of c without an active topic indicator.
C2_ZeroTopicRowsCounted ==
    (Called /\ proportional) =>
        \A c \in PrimaryCategories(df) :
            Leq(Num(RowsWithoutActiveTopic(RowsOf(df, c))),
                WeightInto(locals.broad_flows, c, "Other"))

----------------------------------------------------------------------------
(* C3: the no-signal pathway in the two modes.                             *)

\* C3, as stated: for every primary category c, the weight of the flow
\* c -> 'Other' (the no-signal pathway) that the call computed is the weight
\* the other mode computes from the same dataset, and it is a whole number.
C3_NoSignalSameInBothModes ==
    Called =>
        \A c \in PrimaryCategories(df) :
            /\ WeightInto(locals.broad_flows, c, "Other")
                  = WeightInto(BroadFlowsOf(df, ~proportional), c, "Other")
            /\ WeightInto(locals.broad_flows, c, "Other")[2] = 1

----------------------------------------------------------------------------
(* C4: proportional-mode conservation.                                     *)

\* C4: in proportional mode, for every non-excluded row with k >= 1 active
\* columns (k counted, as the code counts it, over the ten columns it reads),
\* each active column gets the weight 1/k and each inactive one 0, and these
\* weights sum to 1; and the weights of the level-1 -> level-2 flows of a
\* primary category sum to the number of its rows with k >= 1.
C4_ProportionalConservation ==
    (Called /\ proportional) =>
        /\ \A i \in 1..Len(df) :
              LET k == Cardinality(ActiveColumnsOf(df[i]))
              IN  (df[i]["fameswap_category"] # Excluded /\ k >= 1) =>
                     /\ \A col \in Range(topic_columns) :
                           normalized(df[i], col)
                               = IF df[i][col] = 1 THEN Frac(1, k) ELSE Num(0)
                     /\ SumOver(Range(topic_columns),
                                [col \in Range(topic_columns) |-> normalized(df[i], col)])
                            = Num(1)
        /\ \A c \in PrimaryCategories(df) :
              WeightFrom(locals.broad_flows, c)
                  = Num(RowsWithActiveColumn(RowsOf(df, c)))

\* A proportional-mode figure of a dataset with a row of three active
\* columns and a row of two.
C4_Witness ==
    /\ Produced
    /\ proportional
    /\ \E i \in 1..Len(df) : \E j \in 1..Len(df) :
          /\ df[i]["fameswap_category"] # Excluded
          /\ df[j]["fameswap_category"] = df[i]["fameswap_category"]
          /\ Cardinality(ActiveColumnsOf(df[i])) = 3
          /\ Cardinality(ActiveColumnsOf(df[j])) = 2

----------------------------------------------------------------------------
(* C5: the ordering law of get_ordered_list.                               *)

\* The position of x in the sequence s without repetition.
PositionIn(s, x) == CHOOSE i \in 1..Len(s) : s[i] = x

\* C5: get_ordered_list(S, canonical) has no duplicates and exactly the
\* elements of S; those that occur in canonical come first, in canonical's
\* order; the others come after them, in ascending lexicographic order; and
\* the result is the same for every order in which S is given.
C5_OrderingLaw ==
    pc = "ordered" =>
        LET S == Range(available_items)
            canonical == Range(order_list)
        IN  /\ Range(ordered) = S
            /\ Len(ordered) = Cardinality(S)
            /\ \A i \in 1..Len(ordered) : \A j \in 1..Len(ordered) :
                  i < j =>
                     /\ ordered[j] \in canonical => ordered[i] \in canonical
                     /\ (ordered[i] \in canonical /\ ordered[j] \in canonical) =>
                           PositionIn(order_list, ordered[i]) < PositionIn(order_list, ordered[j])
                     /\ (ordered[i] \notin canonical /\ ordered[j] \notin canonical) =>
                           StrLess(ordered[i], ordered[j])
            /\ \A t \in Lists(Labels, MaxItems) :
                  Range(t) = S => get_ordered_list(t, order_list) = ordered

\* A call with an item of the canonical list and two that are not in it,
\* given in descending order.
C5_Witness ==
    /\ pc = "ordered"
    /\ Len(available_items) = 3
    /\ \E i \in 1..3 : available_items[i] \in Range(order_list)
    /\ \E i \in 1..3 : \E j \in 1..3 :
          /\ i < j
          /\ available_items[i] \notin Range(order_list)
          /\ available_items[j] \notin Range(order_list)
          /\ StrLess(available_items[j], available_items[i])

----------------------------------------------------------------------------
(* C6: invisible nodes and the edges that touch them.                      *)

\* C6, as stated: in every figure, every node of an invisible category has
\* the empty label and the transparent fill, and every edge whose source or
\* target is such a node has the transparent colour.
C6_InvisibilityLaw ==
    Produced =>
        /\ \A i \in 1..(n1 + n2 + n3) :
              Invisible(i) => /\ fig.node.label[i] = ""
                              /\ fig.node.color[i] = Transparent
        /\ \A e \in 1..Len(fig.link.source) :
              (Invisible(fig.link.source[e] + 1) \/ Invisible(fig.link.target[e] + 1))
                  => fig.link.color[e] = Transparent

----------------------------------------------------------------------------
(* C7: the x position of the nodes of a level.                             *)

\* C7, as stated: in every figure the nodes of a level share one x, visible
\* and invisible alike, and the x of level 1 is less than the x of level 2,
\* which is less than the x of level 3.
C7_OneColumnPerLevel ==
    Produced =>
        \A i \in 1..(n1 + n2 + n3) : \A j \in 1..(n1 + n2 + n3) :
            /\ Level(i) = Level(j) => fig.node.x[i] = fig.node.x[j]
            /\ Level(i) < Level(j) => Less(fig.node.x[i], fig.node.x[j])

----------------------------------------------------------------------------
(* C8: the range of the positions.                                         *)

\* C8, as stated: every node of every figure has its x and its y in [0,1].
C8_PositionsInUnitSquare ==
    Produced =>
        \A i \in 1..Len(fig.node.x) :
            /\ Leq(Num(0), fig.node.x[i]) /\ Leq(fig.node.x[i], Num(1))
            /\ Leq(Num(0), fig.node.y[i]) /\ Leq(fig.node.y[i], Num(1))

----------------------------------------------------------------------------
(* C9: a dataset of which no row survives the exclusion.                   *)

\* C9, as stated: when no row survives the exclusion, the call returns a
\* figure, an empty one: it has no edges, and the two flow frames are empty.
C9_EmptyInputYieldsEmptyGraph ==
    (Called /\ WithoutExcluded(df) = <<>>) =>
        /\ fig # None
        /\ fig.link.source = <<>>
        /\ locals.broad_flows = <<>>
        /\ locals.specific_flows = <<>>

\* C9, amended: when no row survives the exclusion, create_sankey_diagram
\* prints "No flows found!" and returns None, having built no flow frame and
\* no graph; create_sankey_plot then prints "Failed to create sankey
\* diagram" and returns (df, None).  Nothing is raised.
C9_EmptyInputYieldsNoFigure ==
    (PastCall /\ WithoutExcluded(df) = <<>>) =>
        /\ fig = None
        /\ locals = NoLocals
        /\ exception = None
        /\ LET before == load_sankey_data(fs, parquet_file).prints
                             \o << "Creating sankey diagram..." >>
           IN  /\ pc = "returned" => stdout = before \o << "No flows found!" >>
               /\ pc = "plotted" =>
                     /\ stdout = before \o << "No flows found!",
                                              "Failed to create sankey diagram" >>
                     /\ ret = <<df, None>>

\* create_sankey_plot has returned for a dataset that has rows, all of the
\* excluded category.
C9_Witness ==
    /\ pc = "plotted"
    /\ df # <<>>
    /\ WithoutExcluded(df) = <<>>

----------------------------------------------------------------------------
(* C10: the exclusion of 'Beauty & Makeup'.                                *)

\* C10: for every dataset with rows of the excluded primary category, there
\* is no level-1 node for it and no flow (hence no edge) from it, and the
\* flow frames, with the weight of every flow of every other primary
\* category, are those obtained from the dataset with the excluded rows
\* deleted beforehand; so is the figure.  (The comparison is made in the
\* state the call returns in; create_sankey_plot changes neither the frames
\* nor the figure.)
C10_Exclusion ==
    (Called /\ Excluded \in Range(Column(df, "fameswap_category"))) =>
        /\ Excluded \notin Range(locals.fameswap_categories)
        /\ \A r \in Range(locals.broad_flows) : r["fameswap_category"] # Excluded
        /\ Produced =>
              /\ n1 = Cardinality(PrimaryCategories(df))
              /\ \A i \in 1..n1 : fig.node.label[i] \notin {Excluded, FAMESWAP_LABELS[Excluded]}
        /\ pc = "returned" =>
              \A other \in {create_sankey_diagram(WithoutExcluded(df), proportional)} :
                 /\ locals.broad_flows = other.locals.broad_flows
                 /\ locals.specific_flows = other.locals.specific_flows
                 /\ fig = other.returns

\* A figure of a dataset with a row of the excluded category that has an
\* active column, and a row of another category.
C10_Witness ==
    /\ Produced
    /\ \E i \in 1..Len(df) :
          /\ df[i]["fameswap_category"] = Excluded
          /\ ActiveColumnsOf(df[i]) # {}
    /\ \E i \in 1..Len(df) : df[i]["fameswap_category"] # Excluded

----------------------------------------------------------------------------
(* C11: no edge of weight zero.                                            *)

\* The broad category of a topic column.
BroadOf(col) == topic_to_broad[TOPIC_LABELS[col]]

\* The cells (row, topic column) of d that are 1, in the non-excluded rows;
\* the pairs (primary category, broad category) and (broad category, specific
\* topic) to which some such cell gives weight.
ActiveCells(d) ==
    {q \in (1..Len(d)) \X Range(topic_columns) :
        /\ d[q[1]]["fameswap_category"] # Excluded
        /\ d[q[1]][q[2]] = 1}

FedBroadPairs(d) ==
    {<<d[q[1]]["fameswap_category"], BroadOf(q[2])>> : q \in ActiveCells(d)}

FedSpecificPairs(d) ==
    {<<BroadOf(q[2]), TOPIC_LABELS[q[2]]>> : q \in ActiveCells(d)}

\* C11: in both modes every flow, and every edge of the figure, has a weight
\* greater than 0: the level-1 -> level-2 flows are, once each, the pairs
\* (primary category, broad category) to which some row gives weight, and
\* the level-2 -> level-3 flows likewise; a pair with no such row (aggregate
\* weight 0) is no flow and no edge.
C11_NoZeroWeightEdge ==
    Called =>
        /\ \A r \in Range(locals.broad_flows) : Less(Num(0), r["count"])
        /\ \A r \in Range(locals.specific_flows) : Less(Num(0), r["count"])
        /\ {<<r["fameswap_category"], r["broad_category"]>> : r \in Range(locals.broad_flows)}
              = FedBroadPairs(df)
        /\ Len(locals.broad_flows) = Cardinality(FedBroadPairs(df))
        /\ {<<r["broad_category"], r["specific_topic"]>> : r \in Range(locals.specific_flows)}
              = FedSpecificPairs(df)
        /\ Len(locals.specific_flows) = Cardinality(FedSpecificPairs(df))
        /\ Produced =>
              /\ Len(fig.link.value) = Len(locals.broad_flows) + Len(locals.specific_flows)
              /\ \A e \in 1..Len(fig.link.value) : Less(Num(0), fig.link.value[e])

\* A proportional-mode figure of a dataset with two primary categories, one
\* of which has a row with a topic that no row of the other has.
C11_Witness ==
    /\ Produced
    /\ proportional
    /\ \E i \in 1..Len(df) : \E j \in 1..Len(df) : \E col \in Range(topic_columns) :
          /\ df[i]["fameswap_category"] # Excluded
          /\ df[j]["fameswap_category"] # Excluded
          /\ df[i]["fameswap_category"] # df[j]["fameswap_category"]
          /\ df[i][col] = 1
          /\ df[j][col] = 0
          /\ ActiveColumnsOf(df[j]) # {}

----------------------------------------------------------------------------
(* C12: the order in which the graph is assembled.                         *)

\* The pair p comes before the pair q.
PairBefore(p, q) == p[1] < q[1] \/ (p[1] = q[1] /\ p[2] < q[2])

\* C12, as stated: a node's index is its position in the concatenation of
\* the three ordered lists; the edges are those of the level-1 -> level-2
\* flows followed by those of the level-2 -> level-3 flows, one edge per
\* flow, carrying the indices of the flow's two nodes and its weight, and
\* within each group in ascending order of (position of the source in its
\* list, position of the target in its list).
C12_AssemblyOrder ==
    Produced =>
        LET fc == locals.fameswap_categories
            bl == locals.broad_category_list
            st == locals.specific_topics
            bf == locals.broad_flows
            sf == locals.specific_flows
            L1 == Len(bf)
            L2 == Len(sf)
            edge(e) == <<fig.link.source[e], fig.link.target[e]>>
        IN  /\ Len(fig.node.label) = n1 + n2 + n3
            /\ \A k \in 1..n1 : fig.node.label[k] = Get(FAMESWAP_LABELS, fc[k], fc[k])
            /\ \A k \in 1..n3 :
                  fig.node.label[n1 + n2 + k] = IF st[k] = "Not at-risk" THEN "" ELSE st[k]
            /\ Len(fig.link.source) = L1 + L2
            /\ \A e \in 1..L1 : \E r \in Range(bf) :
                  /\ fig.link.source[e] = PositionIn(fc, r["fameswap_category"]) - 1
                  /\ fig.link.target[e] = n1 + PositionIn(bl, r["broad_category"]) - 1
                  /\ fig.link.value[e] = r["count"]
            /\ \A e \in 1..L2 : \E r \in Range(sf) :
                  /\ fig.link.source[L1 + e] = n1 + PositionIn(bl, r["broad_category"]) - 1
                  /\ fig.link.target[L1 + e] = n1 + n2 + PositionIn(st, r["specific_topic"]) - 1
                  /\ fig.link.value[L1 + e] = r["count"]
            /\ \A e \in 1..(L1 + L2) : \A g \in 1..(L1 + L2) :
                  (e < g /\ (g <= L1 \/ e > L1)) => PairBefore(edge(e), edge(g))

(***************************************************************************)
(* C13: the endpoints of an edge and the levels of the graph.              *)
(***************************************************************************)

\* C13, as stated: for every input, a primary category named like a broad
\* category or a specific topic included, every level-1 to level-2 edge has
\* its source index in [0, n1) and its target index in [n1, n1 + n2), and
\* every level-2 to level-3 edge has its source index in [n1, n1 + n2) and
\* its target index in [n1 + n2, n1 + n2 + n3).
C13_EndpointsStayInLevel ==
    Produced =>
        LET L1 == Len(locals.broad_flows)
            L2 == Len(locals.specific_flows)
        IN  /\ \A e \in 1..L1 :
                  /\ Level(fig.link.source[e] + 1) = 1
                  /\ Level(fig.link.target[e] + 1) = 2
            /\ \A e \in 1..L2 :
                  /\ Level(fig.link.source[L1 + e] + 1) = 2
                  /\ Level(fig.link.target[L1 + e] + 1) = 3

(***************************************************************************)
(* C14: the balance of the flows at the middle column.                     *)
(***************************************************************************)

\* The edges of the first group (level 1 to level 2) and of the second group
\* (level 2 to level 3) of the figure, as positions in the link lists.
BroadEdges == 1..Len(locals.broad_flows)

SpecificEdges ==
    (Len(locals.broad_flows) + 1)..(Len(locals.broad_flows) + Len(locals.specific_flows))

\* The index of the level-2 node of the k-th broad category and of the
\* level-3 node of the k-th specific topic.
BroadIndex(k) == n1 + k - 1

SpecificIndex(k) == n1 + n2 + k - 1

\* The sum of the weights of the edges of the set E.
EdgeWeight(E) == SumOver(E, [e \in E |-> fig.link.value[e]])

\* C14: in both modes, whenever a graph is produced, for every broad category
\* b the weights of the level-1 to level-2 edges into b and the weights of
\* the level-2 to level-3 edges out of b have the same sum; a broad category
\* is a level-2 node exactly when one of its specific topics is a level-3
\* node; and every level-3 node has exactly one incoming edge, which leaves
\* from the level-2 node of the broad category of its topic.
C14_FlowBalance ==
    Produced =>
        LET bl == locals.broad_category_list
            st == locals.specific_topics
        IN  /\ \A k \in 1..n2 :
                  EdgeWeight({e \in BroadEdges : fig.link.target[e] = BroadIndex(k)})
                      = EdgeWeight({e \in SpecificEdges : fig.link.source[e] = BroadIndex(k)})
            /\ \A b \in DOMAIN broad_categories :
                  b \in Range(bl) <=> Range(broad_categories[b]) \cap Range(st) # {}
            /\ \A b \in DOMAIN broad_categories :
                  b \notin Range(bl) =>
                     /\ \A i \in 1..Len(locals.broad_flows) :
                           locals.broad_flows[i]["broad_category"] # b
                     /\ \A i \in 1..Len(locals.specific_flows) :
                           locals.specific_flows[i]["broad_category"] # b
            /\ \A k \in 1..n3 :
                  LET incoming == {e \in BroadEdges \cup SpecificEdges :
                                       fig.link.target[e] = SpecificIndex(k)}
                  IN  /\ Cardinality(incoming) = 1
                      /\ incoming \subseteq SpecificEdges
                      /\ \A e \in incoming :
                            fig.link.source[e]
                                = BroadIndex(PositionIn(bl, topic_to_broad[st[k]]))

\* A proportional graph in which the broad category 'Ideological' receives
\* edges from two primary categories and feeds two specific topics.
C14_Witness ==
    /\ Produced
    /\ proportional
    /\ "Ideological" \in Range(locals.broad_category_list)
    /\ LET k == PositionIn(locals.broad_category_list, "Ideological")
       IN  /\ Cardinality({e \in BroadEdges : fig.link.target[e] = BroadIndex(k)}) >= 2
           /\ Cardinality({e \in SpecificEdges : fig.link.source[e] = BroadIndex(k)}) >= 2

=============================================================================
